---- MODULE Spec2Model ----
(***************************************************************************)
(* Paint-Replica: the three layer stores of layer_store.py, the Grid of    *)
(* grid.py and the history trackers of undo.py and replay.py.              *)
(*                                                                         *)
(* StoreSpec drives one store of any of the three variants through         *)
(* add / erase / special / get_color and remembers the last two calls.     *)
(***************************************************************************)
EXTENDS Integers, Sequences, FiniteSets, TLC

VARIABLES
    store,      \* the LayerStore object under test (a record tagged by kind)
    call,       \* the most recent call made on store: operation, arguments, result, store before
    prev,       \* the call made before that one
    grid,       \* Grid.grid: the store of every cell, by <<row, column>>
    brush_size, \* Grid.brush_size
    cell_id,    \* which store object each cell of Grid.grid refers to, by <<row, column>>
    undo_array, \* UndoTracker.undo_array
    redo_array, \* UndoTracker.redo_array
    action_queue, \* ReplayTracker.action_queue
    replay_queue, \* ReplayTracker.replay_queue
    replaying,  \* ReplayTracker.replaying
    log         \* the calls made on the grid and the trackers so far, oldest first

storeVars == <<store, call, prev>>
gridVars == <<grid, brush_size, cell_id>>
undoVars == <<undo_array, redo_array>>
replayVars == <<action_queue, replay_queue, replaying>>
historyVars == <<grid, brush_size, cell_id, undo_array, redo_array,
                 action_queue, replay_queue, replaying, log>>
vars == <<store, call, prev, grid, brush_size, cell_id, undo_array, redo_array,
          action_queue, replay_queue, replaying, log>>

----------------------------------------------------------------------------
(* Bounds of the model *)

\* an additive store is handed a layer other than FillLayer only while it holds
\* fewer than this many layers; beyond that it is filled up with FillLayer
VaryLen == 2

\* the dimensions of the grid the trackers work on
GridX == 1
GridY == 2

\* UndoSpec makes at most this many calls
MaxOps == 4

\* ReplaySpec records at most this many entries
MaxRecorded == 2

\* UndoDeepSpec makes at most this many calls
MaxDeepOps == 7

\* CapacitySpec makes at most this many calls
MaxCapOps == 3

\* GridSpec makes at most this many calls on the grid it constructed
MaxGridOps == 5

\* MixedSpec records at most this many entries
MaxMixed == 3

\* CellSpec makes at most this many calls
MaxCellOps == 3

----------------------------------------------------------------------------
\* CircularQueue(20) in AdditiveLayerStore.__init__
Capacity == 20
\* ArrayStack(100000) in UndoTracker
UndoCapacity == 100000
\* CircularQueue(1000) in ReplayTracker
ReplayCapacity == 1000

(* Layers and colours (layers.py / layer_util.py are outside src/) *)

None == -1

\* get_layers(): the registry, ordered by index; entry i+1 is the layer of index i
registered_layers ==
    << [index |-> 0, name |-> "lighten"],
       [index |-> 1, name |-> "black"],
       [index |-> 2, name |-> "invert"],
       [index |-> 3, name |-> "darken"],
       [index |-> 4, name |-> "red"] >>

LayerIndices == { registered_layers[i].index : i \in 1..Len(registered_layers) }

LayerName(l) == registered_layers[l + 1].name

\* lexicographic order on the names of the registry
NameRank(n) ==
    CASE n = "black"   -> 1
      [] n = "darken"  -> 2
      [] n = "invert"  -> 3
      [] n = "lighten" -> 4
      [] n = "red"     -> 5

Min(a, b) == IF a < b THEN a ELSE b
Max(a, b) == IF a > b THEN a ELSE b

\* layer.apply(start, timestamp, x, y)
LayerApply(l, start, timestamp, x, y) ==
    CASE l = 0 -> << Min(start[1] + 40, 255), Min(start[2] + 40, 255), Min(start[3] + 40, 255) >>
      [] l = 1 -> << 0, 0, 0 >>
      [] l = 2 -> << 255 - start[1], 255 - start[2], 255 - start[3] >>
      [] l = 3 -> << Max(start[1] - 40, 0), Max(start[2] - 40, 0), Max(start[3] - 40, 0) >>
      [] l = 4 -> << 255, 0, 0 >>

\* start colours handed to get_color
StartColours == { <<100, 150, 200>>, <<255, 255, 255>> }

\* the layer that fills an additive store up to its capacity
FillLayer == registered_layers[1].index
MarkedLayer == registered_layers[2].index

----------------------------------------------------------------------------
(* data_structures (outside src/): bounded queue, bounded stack *)

CircularQueue(max_capacity) == [items |-> <<>>, cap |-> max_capacity]
QLen(q) == Len(q.items)
QIsEmpty(q) == Len(q.items) = 0
QIsFull(q) == Len(q.items) >= q.cap
QAppend(q, item) == IF QIsFull(q) THEN q ELSE [q EXCEPT !.items = Append(@, item)]
QServe(q) == [q EXCEPT !.items = Tail(@)]
QFront(q) == Head(q.items)

ArrayStack(max_capacity) == [items |-> <<>>, cap |-> max_capacity]
SIsEmpty(s) == Len(s.items) = 0
SIsFull(s) == Len(s.items) >= s.cap
SPush(s, item) == IF Len(s.items) >= s.cap THEN s ELSE [s EXCEPT !.items = Append(@, item)]
SPeek(s) == s.items[Len(s.items)]
SPop(s) == [s EXCEPT !.items = SubSeq(@, 1, Len(@) - 1)]

----------------------------------------------------------------------------
(* SetLayerStore *)

SetLayerStore == [kind |-> "SET", layer |-> None, invert |-> FALSE]

SetAdd(s, layer) ==
    IF layer # s.layer
    THEN [store |-> [s EXCEPT !.layer = layer], ret |-> TRUE]
    ELSE [store |-> s, ret |-> FALSE]

Invert(color) == << 255 - color[1], 255 - color[2], 255 - color[3] >>

SetGetColor(s, start, timestamp, x, y) ==
    IF s.layer = None
    THEN [store |-> s, color |-> IF s.invert THEN <<0, 0, 0>> ELSE start, raised |-> ""]
    ELSE LET color == LayerApply(s.layer, start, timestamp, x, y)
         IN  [store |-> s, color |-> IF s.invert THEN Invert(color) ELSE color, raised |-> ""]

\* a variant of erase that clears the slot only when handed the held layer
SetEraseMatching(s, layer) ==
    IF s.layer # None /\ s.layer = layer
    THEN [store |-> [s EXCEPT !.layer = None], ret |-> TRUE]
    ELSE [store |-> s, ret |-> FALSE]

SetErase(s, layer) ==
    IF s.layer # None
    THEN [store |-> [s EXCEPT !.layer = None], ret |-> TRUE]
    ELSE [store |-> s, ret |-> FALSE]

SetSpecial(s) == [s EXCEPT !.invert = ~ s.invert]

----------------------------------------------------------------------------
(* AdditiveLayerStore: self.layers and self.layers2 are references to queue
   objects; same = TRUE when both name one object, and then the two fields
   are kept equal. *)

AdditiveLayerStore ==
    [kind |-> "ADD", layers |-> CircularQueue(Capacity), layers2 |-> CircularQueue(Capacity),
     same |-> FALSE]

\* self.layers.append(item) / self.layers.serve() / self.layers2.append(item) on the objects
LayersAppend(s, item) ==
    LET q == QAppend(s.layers, item)
    IN  [s EXCEPT !.layers = q, !.layers2 = IF s.same THEN q ELSE @]

LayersServe(s) ==
    LET q == QServe(s.layers)
    IN  [s EXCEPT !.layers = q, !.layers2 = IF s.same THEN q ELSE @]

Layers2Append(s, item) ==
    LET q == QAppend(s.layers2, item)
    IN  [s EXCEPT !.layers2 = q, !.layers = IF s.same THEN q ELSE @]

\* a variant of add without the is_full() test
AdditiveAddUnchecked(s, layer) ==
    [store |-> LayersAppend(s, layer), ret |-> TRUE]

AdditiveAdd(s, layer) ==
    IF QIsFull(s.layers)
    THEN [store |-> s, ret |-> FALSE]
    ELSE [store |-> LayersAppend(s, layer), ret |-> TRUE]

\* the body of the for loop of get_color, n iterations left
RECURSIVE AdditiveGetColorLoop(_, _, _, _, _, _)
AdditiveGetColorLoop(s, n, start, timestamp, x, y) ==
    IF n = 0
    THEN [store |-> s, color |-> start]
    ELSE LET item == QFront(s.layers)
             s1 == LayersServe(s)
             colors == LayerApply(item, start, timestamp, x, y)
             s2 == Layers2Append(s1, item)
         IN  AdditiveGetColorLoop(s2, n - 1, colors, timestamp, x, y)

\* a variant of get_color that never points self.layers at the rebuilt queue
AdditiveGetColorNoSwap(s, start, timestamp, x, y) ==
    IF QIsEmpty(s.layers)
    THEN [store |-> s, color |-> start, raised |-> ""]
    ELSE LET r == AdditiveGetColorLoop(s, QLen(s.layers), start, timestamp, x, y)
         IN  [store |-> r.store, color |-> r.color, raised |-> ""]

AdditiveGetColor(s, start, timestamp, x, y) ==
    IF QIsEmpty(s.layers)
    THEN [store |-> s, color |-> start, raised |-> ""]
    ELSE LET r == AdditiveGetColorLoop(s, QLen(s.layers), start, timestamp, x, y)
         IN  [store |-> [r.store EXCEPT !.layers = r.store.layers2, !.same = TRUE],
              color |-> r.color, raised |-> ""]

\* a variant of erase that removes the newest layer
AdditiveEraseNewest(s, layer) ==
    IF ~ QIsEmpty(s.layers)
    THEN LET q == SPop(s.layers)
         IN  [store |-> [s EXCEPT !.layers = q, !.layers2 = IF s.same THEN q ELSE @],
              ret |-> TRUE]
    ELSE [store |-> s, ret |-> FALSE]

AdditiveErase(s, layer) ==
    IF ~ QIsEmpty(s.layers)
    THEN [store |-> LayersServe(s), ret |-> TRUE]
    ELSE [store |-> s, ret |-> FALSE]

\* while not self.layers.is_empty(): stack.push(self.layers.serve())
RECURSIVE DrainToStack(_, _)
DrainToStack(q, stack) ==
    IF QIsEmpty(q)
    THEN [queue |-> q, stack |-> stack]
    ELSE DrainToStack(QServe(q), SPush(stack, QFront(q)))

\* while not stack.is_empty(): reversed_queue.append(stack.pop())
RECURSIVE PopToQueue(_, _)
PopToQueue(stack, q) ==
    IF SIsEmpty(stack)
    THEN q
    ELSE PopToQueue(SPop(stack), QAppend(q, SPeek(stack)))

\* a variant of special() that refills the new queue in the order served
AdditiveSpecialSameOrder(s) ==
    LET reversed_queue == [items |-> s.layers.items, cap |-> QLen(s.layers)]
    IN  [s EXCEPT !.layers = reversed_queue,
                  !.layers2 = IF s.same THEN [@ EXCEPT !.items = << >>] ELSE @,
                  !.same = FALSE]

AdditiveSpecial(s) ==
    LET stack == ArrayStack(QLen(s.layers))
        reversed_queue == CircularQueue(QLen(s.layers))
        d == DrainToStack(s.layers, stack)
    IN  [s EXCEPT !.layers = PopToQueue(d.stack, reversed_queue),
                  !.layers2 = IF s.same THEN d.queue ELSE @,
                  !.same = FALSE]

----------------------------------------------------------------------------
(* SequenceLayerStore: self.layers is a BSet holding layer.index + 1 *)

BSet == {}

SequenceLayerStore == [kind |-> "SEQUENCE", layers |-> BSet]

\* a variant of add that reports a change whether or not the index was active
SequenceAddAlwaysTrue(s, layer) ==
    [store |-> [s EXCEPT !.layers = @ \cup {layer + 1}], ret |-> TRUE]

SequenceAdd(s, layer) ==
    IF ~ ((layer + 1) \in s.layers)
    THEN [store |-> [s EXCEPT !.layers = @ \cup {layer + 1}], ret |-> TRUE]
    ELSE [store |-> s, ret |-> FALSE]

\* for i in range(1, len(self.registered_layers)), from i on; color = None while unbound
RECURSIVE SequenceGetColorLoop(_, _, _, _, _, _, _)
SequenceGetColorLoop(s, i, start, color, timestamp, x, y) ==
    IF i >= Len(registered_layers)
    THEN color
    ELSE IF i \in s.layers
         THEN LET c == LayerApply(registered_layers[i].index, start, timestamp, x, y)
              IN  SequenceGetColorLoop(s, i + 1, c, c, timestamp, x, y)
         ELSE SequenceGetColorLoop(s, i + 1, start, color, timestamp, x, y)

Unbound == << >>

SequenceGetColor(s, start, timestamp, x, y) ==
    LET color0 == IF s.layers = {} THEN start ELSE Unbound
        color == SequenceGetColorLoop(s, 1, start, color0, timestamp, x, y)
    IN  IF color = Unbound
        THEN [store |-> s, color |-> Unbound, raised |-> "UnboundLocalError"]
        ELSE [store |-> s, color |-> color, raised |-> ""]

SequenceErase(s, layer) ==
    IF (layer + 1) \in s.layers
    THEN [store |-> [s EXCEPT !.layers = @ \ {layer + 1}], ret |-> TRUE]
    ELSE [store |-> s, ret |-> FALSE]

\* ArraySortedList.add(ListItem(value, key)): insert keeping ascending key order
RECURSIVE SortedAdd(_, _)
SortedAdd(list, item) ==
    IF list = << >> \/ NameRank(item.key) < NameRank(Head(list).key)
    THEN << item >> \o list
    ELSE << Head(list) >> \o SortedAdd(Tail(list), item)

\* the loop of special() filling array_list, from i on
RECURSIVE SequenceSortedActive(_, _, _)
SequenceSortedActive(s, i, array_list) ==
    IF i >= Len(registered_layers)
    THEN array_list
    ELSE IF i \in s.layers
         THEN LET layers == registered_layers[i]
              IN  SequenceSortedActive(s, i + 1,
                      SortedAdd(array_list, [value |-> layers.index, key |-> layers.name]))
         ELSE SequenceSortedActive(s, i + 1, array_list)

find_mid(array) ==
    LET length == Len(array)
        mid == IF length % 2 = 1 THEN length \div 2 ELSE length \div 2 - 1
    IN  array[mid + 1]

SequenceSpecial(s) ==
    LET array_list == SequenceSortedActive(s, 1, << >>)
    IN  IF Len(array_list) = 0
        THEN s
        ELSE SequenceErase(s, find_mid(array_list).value).store

----------------------------------------------------------------------------
(* LayerStore: dispatch on the class of the object *)

StoreAdd(s, layer) ==
    CASE s.kind = "SET" -> SetAdd(s, layer)
      [] s.kind = "ADD" -> AdditiveAdd(s, layer)
      [] s.kind = "SEQUENCE" -> SequenceAdd(s, layer)

StoreErase(s, layer) ==
    CASE s.kind = "SET" -> SetErase(s, layer)
      [] s.kind = "ADD" -> AdditiveErase(s, layer)
      [] s.kind = "SEQUENCE" -> SequenceErase(s, layer)

StoreSpecial(s) ==
    CASE s.kind = "SET" -> SetSpecial(s)
      [] s.kind = "ADD" -> AdditiveSpecial(s)
      [] s.kind = "SEQUENCE" -> SequenceSpecial(s)

StoreGetColor(s, start, timestamp, x, y) ==
    CASE s.kind = "SET" -> SetGetColor(s, start, timestamp, x, y)
      [] s.kind = "ADD" -> AdditiveGetColor(s, start, timestamp, x, y)
      [] s.kind = "SEQUENCE" -> SequenceGetColor(s, start, timestamp, x, y)

\* the logical contents of a store: what the caller can tell apart
Contents(s) ==
    CASE s.kind = "SET" -> [layer |-> s.layer, invert |-> s.invert]
      [] s.kind = "ADD" -> s.layers.items
      [] s.kind = "SEQUENCE" -> { i - 1 : i \in s.layers }

----------------------------------------------------------------------------
(* Grid *)

DRAW_STYLE_SET == "SET"
DRAW_STYLE_ADD == "ADD"
DRAW_STYLE_SEQUENCE == "SEQUENCE"
DRAW_STYLE_OPTIONS == {DRAW_STYLE_SET, DRAW_STYLE_ADD, DRAW_STYLE_SEQUENCE}

DEFAULT_BRUSH_SIZE == 2
MAX_BRUSH == 5
MIN_BRUSH == 0

Positions(x, y) == (0 .. x - 1) \X (0 .. y - 1)

\* a variant of Grid.__init__ that gives every cell a SetLayerStore
GridAlwaysSet(draw_style, x, y) == [p \in Positions(x, y) |-> SetLayerStore]

\* a variant of Grid.__init__ that puts one store object in every cell
GridIdsOneStore(x, y) == [p \in Positions(x, y) |-> 1]

\* Grid.__init__: the store constructor is called in every pass of the inner
\* loop, so every cell refers to an object of its own; objects are numbered in
\* the order the loops make them
GridIds(x, y) == [p \in Positions(x, y) |-> p[1] * y + p[2] + 1]

\* Grid.__init__ for a recognised draw_style: one fresh store per cell
Grid(draw_style, x, y) ==
    [p \in Positions(x, y) |->
        CASE draw_style = DRAW_STYLE_SET -> SetLayerStore
          [] draw_style = DRAW_STYLE_ADD -> AdditiveLayerStore
          [] draw_style = DRAW_STYLE_SEQUENCE -> SequenceLayerStore]

\* Grid(draw_style, x, y) as a caller sees it: ValueError and no object for an
\* unrecognised draw_style, else the cells and the brush size of the new grid
GridNew(draw_style, x, y) ==
    IF draw_style \notin DRAW_STYLE_OPTIONS
    THEN [raised |-> "ValueError", grid |-> << >>, cell_id |-> << >>, brush_size |-> None]
    ELSE [raised |-> "", grid |-> Grid(draw_style, x, y), cell_id |-> GridIds(x, y),
          brush_size |-> DEFAULT_BRUSH_SIZE]

\* a variant of increase_brush_size without the check against MAX_BRUSH
IncreaseBrushSizeUnchecked(b) == b + 1

IncreaseBrushSize(b) == IF b # MAX_BRUSH THEN b + 1 ELSE b
DecreaseBrushSize(b) == IF b # MIN_BRUSH THEN b - 1 ELSE b

\* Grid.special: special() on the store of every cell
GridSpecial(g) == [p \in DOMAIN g |-> StoreSpecial(g[p])]

\* the cells of g after a call on the store object that cell p refers to: after
\* is that object's new state, and every cell referring to the object shows it
OnStoreOf(g, ids, p, after) ==
    [q \in DOMAIN g |-> IF ids[q] = ids[p] THEN after ELSE g[q]]

CellAfterSpecial(s) == StoreSpecial(s)

\* for row in range(self.x): for column in range(self.y): the cells in loop order
RowMajor(x, y) == [k \in 1..(x * y) |-> <<(k - 1) \div y, (k - 1) % y>>]

\* Grid.special, as the loops run it: self.grid[row][column].special() for the
\* cells of order, one after the other
RECURSIVE GridSpecialLoop(_, _, _)
GridSpecialLoop(g, ids, order) ==
    IF order = << >> THEN g
    ELSE GridSpecialLoop(OnStoreOf(g, ids, Head(order), CellAfterSpecial(g[Head(order)])),
                         ids, Tail(order))

\* what a caller can tell apart in a grid: the contents of every cell
GridContents(g) == [p \in DOMAIN g |-> Contents(g[p])]

----------------------------------------------------------------------------
(* PaintAction and PaintStep (action.py is outside src/): an action is either
   special or a list of steps, each one layer at one cell *)

PaintStep(pos, layer) == [affected_grid_position |-> pos, layer |-> layer]
PaintAction(steps, is_special) == [steps |-> steps, is_special |-> is_special]

\* PaintStep.redo_apply / undo_apply over the steps of an action, in order
RECURSIVE StepsRedoApply(_, _)
StepsRedoApply(steps, g) ==
    IF steps = << >> THEN g
    ELSE LET step == Head(steps)
             p == step.affected_grid_position
         IN  StepsRedoApply(Tail(steps), [g EXCEPT ![p] = StoreAdd(g[p], step.layer).store])

RECURSIVE StepsUndoApply(_, _)
StepsUndoApply(steps, g) ==
    IF steps = << >> THEN g
    ELSE LET step == Head(steps)
             p == step.affected_grid_position
         IN  StepsUndoApply(Tail(steps), [g EXCEPT ![p] = StoreErase(g[p], step.layer).store])

\* PaintAction.redo_apply(grid): the forward transform
ActionRedoApply(action, g) ==
    StepsRedoApply(action.steps, IF action.is_special THEN GridSpecial(g) ELSE g)

\* PaintAction.undo_apply(grid): the backward transform
ActionUndoApply(action, g) ==
    StepsUndoApply(action.steps, IF action.is_special THEN GridSpecial(g) ELSE g)

NoAction == PaintAction(<< >>, FALSE)

\* the actions the callers make
SpecialAction == PaintAction(<< >>, TRUE)
DrawActions ==
    { PaintAction(<< PaintStep(<<0, 0>>, FillLayer) >>, FALSE),
      PaintAction(<< PaintStep(<<0, 0>>, MarkedLayer) >>, FALSE),
      PaintAction(<< PaintStep(<<0, 0>>, MarkedLayer),
                     PaintStep(<<GridX - 1, GridY - 1>>, FillLayer) >>, FALSE),
      PaintAction(<< PaintStep(<<0, 0>>, FillLayer),
                     PaintStep(<<0, 0>>, MarkedLayer) >>, FALSE) }
Actions == {SpecialAction} \cup DrawActions

----------------------------------------------------------------------------
(* UndoTracker *)

\* a variant of add_action that drops the oldest action to make room
UndoAddActionEvict(stack, action) ==
    IF Len(stack.items) >= stack.cap
    THEN [stack EXCEPT !.items = Append(Tail(@), action)]
    ELSE SPush(stack, action)

UndoAddAction(stack, action) == SPush(stack, action)

\* a variant of undo that applies the forward transform
UndoTrackerUndoForward(undo, redo, g) ==
    IF SIsEmpty(undo)
    THEN [undo |-> undo, redo |-> redo, grid |-> g, none |-> TRUE, ret |-> NoAction]
    ELSE LET undoItem == SPeek(undo)
         IN  [undo |-> SPop(undo),
              redo |-> SPush(redo, undoItem),
              grid |-> ActionRedoApply(undoItem, g),
              none |-> FALSE, ret |-> undoItem]

\* a variant of undo that forgets what was undone before
UndoTrackerUndoResetsRedo(undo, redo, g) ==
    IF SIsEmpty(undo)
    THEN [undo |-> undo, redo |-> redo, grid |-> g, none |-> TRUE, ret |-> NoAction]
    ELSE LET undoItem == SPeek(undo)
         IN  [undo |-> SPop(undo),
              redo |-> SPush(ArrayStack(redo.cap), undoItem),
              grid |-> ActionUndoApply(undoItem, g),
              none |-> FALSE, ret |-> undoItem]

\* a variant of undo that takes the oldest recorded action
UndoTrackerUndoOldest(undo, redo, g) ==
    IF SIsEmpty(undo)
    THEN [undo |-> undo, redo |-> redo, grid |-> g, none |-> TRUE, ret |-> NoAction]
    ELSE LET undoItem == Head(undo.items)
         IN  [undo |-> [undo EXCEPT !.items = Tail(@)],
              redo |-> SPush(redo, undoItem),
              grid |-> ActionUndoApply(undoItem, g),
              none |-> FALSE, ret |-> undoItem]

\* undo(grid): the stacks, the grid and the returned action (NoAction with none = TRUE for None)
UndoTrackerUndo(undo, redo, g) ==
    IF SIsEmpty(undo)
    THEN [undo |-> undo, redo |-> redo, grid |-> g, none |-> TRUE, ret |-> NoAction]
    ELSE LET undoItem == SPeek(undo)
         IN  [undo |-> SPop(undo),
              redo |-> SPush(redo, undoItem),
              grid |-> ActionUndoApply(undoItem, g),
              none |-> FALSE, ret |-> undoItem]

\* a variant of redo that pushes the redone action back onto the undo stack
UndoTrackerRedoRepush(undo, redo, g) ==
    IF SIsEmpty(redo)
    THEN [undo |-> undo, redo |-> redo, grid |-> g, none |-> TRUE, ret |-> NoAction]
    ELSE LET redoItem == SPeek(redo)
         IN  [undo |-> SPush(undo, redoItem),
              redo |-> SPop(redo),
              grid |-> ActionRedoApply(redoItem, g),
              none |-> FALSE, ret |-> redoItem]

UndoTrackerRedo(undo, redo, g) ==
    IF SIsEmpty(redo)
    THEN [undo |-> undo, redo |-> redo, grid |-> g, none |-> TRUE, ret |-> NoAction]
    ELSE LET redoItem == SPeek(redo)
         IN  [undo |-> undo,
              redo |-> SPop(redo),
              grid |-> ActionRedoApply(redoItem, g),
              none |-> FALSE, ret |-> redoItem]

----------------------------------------------------------------------------
(* ReplayTracker *)

\* a variant of add_action that puts the entry ahead of the entries waiting
ReplayAddActionFront(queue, action, is_undo) ==
    IF QIsFull(queue) THEN queue
    ELSE [queue EXCEPT !.items = << <<action, is_undo>> >> \o @]

ReplayAddAction(queue, action, is_undo) == QAppend(queue, <<action, is_undo>>)

\* a variant of play_next_action that ignores is_undo
PlayNextActionForwardOnly(aq, rq, mode, g) ==
    IF mode
    THEN IF QIsEmpty(rq) /\ QIsEmpty(aq)
         THEN [action_queue |-> aq, replay_queue |-> rq, replaying |-> FALSE,
               grid |-> g, ret |-> TRUE]
         ELSE LET transfer == QIsEmpty(rq)
                  rq1 == IF transfer THEN aq ELSE rq
                  aq1 == IF transfer THEN CircularQueue(ReplayCapacity) ELSE aq
              IN  [action_queue |-> aq1, replay_queue |-> QServe(rq1), replaying |-> mode,
                   grid |-> ActionRedoApply(QFront(rq1)[1], g),
                   ret |-> FALSE]
    ELSE [action_queue |-> aq, replay_queue |-> rq, replaying |-> mode,
          grid |-> g, ret |-> TRUE]

\* a variant of play_next_action that stays in playback mode when nothing is left
PlayNextActionStaysOn(aq, rq, mode, g) ==
    IF mode
    THEN IF QIsEmpty(rq) /\ QIsEmpty(aq)
         THEN [action_queue |-> aq, replay_queue |-> rq, replaying |-> mode,
               grid |-> g, ret |-> TRUE]
         ELSE LET transfer == QIsEmpty(rq)
                  rq1 == IF transfer THEN aq ELSE rq
                  aq1 == IF transfer THEN CircularQueue(ReplayCapacity) ELSE aq
                  entry == QFront(rq1)
              IN  [action_queue |-> aq1, replay_queue |-> QServe(rq1), replaying |-> mode,
                   grid |-> IF entry[2] THEN ActionUndoApply(entry[1], g)
                                        ELSE ActionRedoApply(entry[1], g),
                   ret |-> FALSE]
    ELSE [action_queue |-> aq, replay_queue |-> rq, replaying |-> mode,
          grid |-> g, ret |-> TRUE]

\* a variant of play_next_action that plays whether or not playback was started
PlayNextActionAnyMode(aq, rq, mode, g) ==
    IF QIsEmpty(rq) /\ QIsEmpty(aq)
    THEN [action_queue |-> aq, replay_queue |-> rq, replaying |-> FALSE,
          grid |-> g, ret |-> TRUE]
    ELSE LET transfer == QIsEmpty(rq)
             rq1 == IF transfer THEN aq ELSE rq
             aq1 == IF transfer THEN CircularQueue(ReplayCapacity) ELSE aq
             entry == QFront(rq1)
         IN  [action_queue |-> aq1, replay_queue |-> QServe(rq1), replaying |-> mode,
              grid |-> IF entry[2] THEN ActionUndoApply(entry[1], g)
                                   ELSE ActionRedoApply(entry[1], g),
              ret |-> FALSE]

\* play_next_action(grid): the queues, the mode, the grid and the returned boolean
PlayNextAction(aq, rq, mode, g) ==
    IF mode
    THEN IF QIsEmpty(rq) /\ QIsEmpty(aq)
         THEN [action_queue |-> aq, replay_queue |-> rq, replaying |-> FALSE,
               grid |-> g, ret |-> TRUE]
         ELSE LET transfer == QIsEmpty(rq)
                  rq1 == IF transfer THEN aq ELSE rq
                  aq1 == IF transfer THEN CircularQueue(ReplayCapacity) ELSE aq
                  entry == QFront(rq1)
                  action == entry[1]
                  is_undo == entry[2]
              IN  [action_queue |-> aq1, replay_queue |-> QServe(rq1), replaying |-> mode,
                   grid |-> IF is_undo THEN ActionUndoApply(action, g)
                                       ELSE ActionRedoApply(action, g),
                   ret |-> FALSE]
    ELSE [action_queue |-> aq, replay_queue |-> rq, replaying |-> mode,
          grid |-> g, ret |-> TRUE]

----------------------------------------------------------------------------
(* StoreSpec: one store, any variant, any sequence of calls *)

NoCall == [op |-> "none", layer |-> None, start |-> << >>, ret |-> FALSE,
           color |-> << >>, raised |-> "", pre |-> << >>]

\* the layers a call may pass to add
AddInputs(s) ==
    IF s.kind = "ADD"
    THEN {FillLayer} \cup (IF QLen(s.layers) < VaryLen THEN {MarkedLayer} ELSE {})
    ELSE LayerIndices

\* the layers a call may pass to erase (the additive store ignores the argument:
\* it is handed MarkedLayer, which is seldom the layer at the head)
EraseInputs(s) == IF s.kind = "ADD" THEN {MarkedLayer} ELSE LayerIndices

\* the state of the grid and the trackers while nothing has been constructed
NoGrid == << >>

HistoryIdle ==
    /\ grid = NoGrid
    /\ cell_id = NoGrid
    /\ brush_size = DEFAULT_BRUSH_SIZE
    /\ undo_array = ArrayStack(UndoCapacity)
    /\ redo_array = ArrayStack(UndoCapacity)
    /\ action_queue = CircularQueue(ReplayCapacity)
    /\ replay_queue = CircularQueue(ReplayCapacity)
    /\ replaying = FALSE
    /\ log = << >>

StoreIdle ==
    /\ store = SetLayerStore
    /\ call = NoCall
    /\ prev = NoCall

StoreInit ==
    /\ store \in {SetLayerStore, AdditiveLayerStore, SequenceLayerStore}
    /\ call = NoCall
    /\ prev = NoCall
    /\ HistoryIdle

CallAdd ==
    \E layer \in AddInputs(store) :
        LET r == StoreAdd(store, layer)
        IN  /\ store' = r.store
            /\ call' = [NoCall EXCEPT !.op = "add", !.layer = layer, !.ret = r.ret, !.pre = store]
            /\ prev' = call
            /\ UNCHANGED historyVars

CallErase ==
    \E layer \in EraseInputs(store) :
        LET r == StoreErase(store, layer)
        IN  /\ store' = r.store
            /\ call' = [NoCall EXCEPT !.op = "erase", !.layer = layer, !.ret = r.ret, !.pre = store]
            /\ prev' = call
            /\ UNCHANGED historyVars

CallSpecial ==
    /\ store' = StoreSpecial(store)
    /\ call' = [NoCall EXCEPT !.op = "special", !.pre = store]
    /\ prev' = call
    /\ UNCHANGED historyVars

CallGetColor ==
    \E start \in StartColours :
        LET r == StoreGetColor(store, start, 0, 0, 0)
        IN  /\ store' = r.store
            /\ call' = [NoCall EXCEPT !.op = "get_color", !.start = start, !.color = r.color,
                                      !.raised = r.raised, !.pre = store]
            /\ prev' = call
            /\ UNCHANGED historyVars

StoreNext == CallAdd \/ CallErase \/ CallSpecial \/ CallGetColor

StoreSpec == StoreInit /\ [][StoreNext]_vars

\* the same calls on a store of one variant
SetInit == StoreInit /\ store.kind = "SET"
SetSpec == SetInit /\ [][StoreNext]_vars

AdditiveInit == StoreInit /\ store.kind = "ADD"
AdditiveSpec == AdditiveInit /\ [][StoreNext]_vars

SequenceInit == StoreInit /\ store.kind = "SEQUENCE"
SequenceSpec == SequenceInit /\ [][StoreNext]_vars

----------------------------------------------------------------------------
(* UndoSpec: a grid of any draw style and an UndoTracker; a caller paints
   (applies an action forward and records it), undoes and redoes *)

LogEntry(op, action, is_undo, none, ret, g) ==
    [op |-> op, action |-> action, is_undo |-> is_undo, none |-> none, ret |-> ret, grid |-> g]

HistoryInit ==
    /\ StoreIdle
    /\ \E draw_style \in DRAW_STYLE_OPTIONS : grid = Grid(draw_style, GridX, GridY)
    /\ cell_id = GridIds(GridX, GridY)
    /\ brush_size = DEFAULT_BRUSH_SIZE
    /\ undo_array = ArrayStack(UndoCapacity)
    /\ redo_array = ArrayStack(UndoCapacity)
    /\ action_queue = CircularQueue(ReplayCapacity)
    /\ replay_queue = CircularQueue(ReplayCapacity)
    /\ replaying = FALSE
    /\ log = << LogEntry("Grid", NoAction, FALSE, FALSE, FALSE, grid) >>

\* the number of calls made since the grid was constructed
Calls == Len(log) - 1

CountOp(op) == Cardinality({ i \in 1..Len(log) : log[i].op = op })

\* action.redo_apply(grid) followed by undo_tracker.add_action(action), for one of
\* the given actions, while fewer than max calls were made
PaintOf(actions, max) ==
    \E action \in actions :
        /\ Calls < max
        /\ grid' = ActionRedoApply(action, grid)
        /\ undo_array' = UndoAddAction(undo_array, action)
        /\ log' = Append(log, LogEntry("paint", action, FALSE, FALSE, FALSE, grid'))
        /\ UNCHANGED <<storeVars, brush_size, cell_id, redo_array, replayVars>>

UndoOf(max) ==
    LET r == UndoTrackerUndo(undo_array, redo_array, grid)
    IN  /\ Calls < max
        /\ grid' = r.grid
        /\ undo_array' = r.undo
        /\ redo_array' = r.redo
        /\ log' = Append(log, LogEntry("undo", r.ret, FALSE, r.none, FALSE, grid'))
        /\ UNCHANGED <<storeVars, brush_size, cell_id, replayVars>>

RedoOf(max) ==
    LET r == UndoTrackerRedo(undo_array, redo_array, grid)
    IN  /\ Calls < max
        /\ grid' = r.grid
        /\ undo_array' = r.undo
        /\ redo_array' = r.redo
        /\ log' = Append(log, LogEntry("redo", r.ret, FALSE, r.none, FALSE, grid'))
        /\ UNCHANGED <<storeVars, brush_size, cell_id, replayVars>>

Paint == PaintOf(Actions, MaxOps)
Undo == UndoOf(MaxOps)
Redo == RedoOf(MaxOps)

UndoNext == Paint \/ Undo \/ Redo

UndoSpec == HistoryInit /\ [][UndoNext]_vars

\* UndoDeepSpec: the same tracker driven for longer with two draw actions only
DeepActions ==
    { PaintAction(<< PaintStep(<<0, 0>>, MarkedLayer) >>, FALSE),
      PaintAction(<< PaintStep(<<GridX - 1, GridY - 1>>, FillLayer) >>, FALSE) }

DeepPaint == PaintOf(DeepActions, MaxDeepOps)
DeepUndo == UndoOf(MaxDeepOps)
DeepRedo == RedoOf(MaxDeepOps)

UndoDeepNext == DeepPaint \/ DeepUndo \/ DeepRedo

UndoDeepSpec == HistoryInit /\ [][UndoDeepNext]_vars

\* TwoTrackersSpec: two UndoTracker instances used on one grid.  undo_array and
\* redo_array are attributes of the class, no method assigns self.undo_array or
\* self.redo_array, so self.undo_array of either instance is the class's stack.
Trackers == {1, 2}

SelfUndoArray(self) == undo_array
SelfRedoArray(self) == redo_array

\* a log entry that also names the instance called
SelfEntry(self, op, action, none, g) ==
    [self |-> self, op |-> op, action |-> action, is_undo |-> FALSE,
     none |-> none, ret |-> FALSE, grid |-> g]

TrackerPaint(self) ==
    \E action \in DeepActions :
        /\ Calls < MaxOps
        /\ grid' = ActionRedoApply(action, grid)
        /\ undo_array' = UndoAddAction(SelfUndoArray(self), action)
        /\ log' = Append(log, SelfEntry(self, "paint", action, FALSE, grid'))
        /\ UNCHANGED <<storeVars, brush_size, cell_id, redo_array, replayVars>>

TrackerUndo(self) ==
    LET r == UndoTrackerUndo(SelfUndoArray(self), SelfRedoArray(self), grid)
    IN  /\ Calls < MaxOps
        /\ grid' = r.grid
        /\ undo_array' = r.undo
        /\ redo_array' = r.redo
        /\ log' = Append(log, SelfEntry(self, "undo", r.ret, r.none, grid'))
        /\ UNCHANGED <<storeVars, brush_size, cell_id, replayVars>>

TrackerRedo(self) ==
    LET r == UndoTrackerRedo(SelfUndoArray(self), SelfRedoArray(self), grid)
    IN  /\ Calls < MaxOps
        /\ grid' = r.grid
        /\ undo_array' = r.undo
        /\ redo_array' = r.redo
        /\ log' = Append(log, SelfEntry(self, "redo", r.ret, r.none, grid'))
        /\ UNCHANGED <<storeVars, brush_size, cell_id, replayVars>>

TwoTrackersInit ==
    /\ StoreIdle
    /\ \E draw_style \in DRAW_STYLE_OPTIONS : grid = Grid(draw_style, GridX, GridY)
    /\ cell_id = GridIds(GridX, GridY)
    /\ brush_size = DEFAULT_BRUSH_SIZE
    /\ undo_array = ArrayStack(UndoCapacity)
    /\ redo_array = ArrayStack(UndoCapacity)
    /\ action_queue = CircularQueue(ReplayCapacity)
    /\ replay_queue = CircularQueue(ReplayCapacity)
    /\ replaying = FALSE
    /\ log = << SelfEntry(0, "Grid", NoAction, FALSE, grid) >>

TwoTrackersNext ==
    \E self \in Trackers : TrackerPaint(self) \/ TrackerUndo(self) \/ TrackerRedo(self)

TwoTrackersSpec == TwoTrackersInit /\ [][TwoTrackersNext]_vars

----------------------------------------------------------------------------
(* ReplaySpec: a grid of any draw style and a ReplayTracker *)

\* the entries recorded: the three of the test block of replay.py and one more draw
ReplayEntries ==
    { <<SpecialAction, FALSE>>,
      <<PaintAction(<< PaintStep(<<0, 0>>, MarkedLayer) >>, FALSE), FALSE>>,
      <<PaintAction(<< PaintStep(<<0, 0>>, MarkedLayer) >>, FALSE), TRUE>>,
      <<PaintAction(<< PaintStep(<<GridX - 1, GridY - 1>>, FillLayer) >>, FALSE), FALSE>> }

\* add_action for one of the given entries, while fewer than max were recorded
AddActionOf(entries, max) ==
    \E e \in entries :
        /\ CountOp("add_action") < max
        /\ action_queue' = ReplayAddAction(action_queue, e[1], e[2])
        /\ log' = Append(log, LogEntry("add_action", e[1], e[2], FALSE, FALSE, grid))
        /\ UNCHANGED <<storeVars, gridVars, undoVars, replay_queue, replaying>>

AddAction == AddActionOf(ReplayEntries, MaxRecorded)

StartReplay ==
    /\ ~ replaying
    /\ replaying' = TRUE
    /\ log' = Append(log, LogEntry("start_replay", NoAction, FALSE, FALSE, FALSE, grid))
    /\ UNCHANGED <<storeVars, gridVars, undoVars, action_queue, replay_queue>>

\* play_next_action, while fewer than max calls of it were made
PlayNextOf(max) ==
    LET r == PlayNextAction(action_queue, replay_queue, replaying, grid)
    IN  /\ CountOp("play_next_action") < max
        /\ action_queue' = r.action_queue
        /\ replay_queue' = r.replay_queue
        /\ replaying' = r.replaying
        /\ grid' = r.grid
        /\ log' = Append(log, LogEntry("play_next_action", NoAction, FALSE, FALSE, r.ret, grid'))
        /\ UNCHANGED <<storeVars, brush_size, cell_id, undoVars>>

PlayNext == PlayNextOf(MaxRecorded + 1)

ReplayNext == AddAction \/ StartReplay \/ PlayNext

ReplaySpec == HistoryInit /\ [][ReplayNext]_vars

\* MixedSpec: the same tracker with more recordings, of fewer kinds, so that
\* entries are recorded while transferred entries still wait to be played
MixedEntries ==
    { <<PaintAction(<< PaintStep(<<0, 0>>, MarkedLayer) >>, FALSE), FALSE>>,
      <<PaintAction(<< PaintStep(<<0, 0>>, MarkedLayer) >>, FALSE), TRUE>> }

MixedAddAction == AddActionOf(MixedEntries, MaxMixed)

MixedStartReplay == Calls < 2 * MaxMixed + 2 /\ StartReplay

MixedPlayNext == PlayNextOf(MaxMixed + 1)

MixedNext == MixedAddAction \/ MixedStartReplay \/ MixedPlayNext

MixedSpec == HistoryInit /\ [][MixedNext]_vars

\* GridSpec: a grid is constructed, then its brush is resized and layers are
\* added to its first cell
DrawStyleInputs == DRAW_STYLE_OPTIONS \cup {"FILL"}

GridEntry(op, draw_style, x, y, raised, g, b) ==
    [op |-> op, draw_style |-> draw_style, x |-> x, y |-> y, raised |-> raised,
     grid |-> g, brush_size |-> b]

GridInit ==
    /\ StoreIdle
    /\ grid = NoGrid
    /\ cell_id = NoGrid
    /\ brush_size = None
    /\ undo_array = ArrayStack(UndoCapacity)
    /\ redo_array = ArrayStack(UndoCapacity)
    /\ action_queue = CircularQueue(ReplayCapacity)
    /\ replay_queue = CircularQueue(ReplayCapacity)
    /\ replaying = FALSE
    /\ log = << >>

GridConstruct ==
    \E draw_style \in DrawStyleInputs, x \in 1..GridX, y \in 1..GridY :
        LET r == GridNew(draw_style, x, y)
        IN  /\ log = << >>
            /\ grid' = r.grid
            /\ cell_id' = r.cell_id
            /\ brush_size' = r.brush_size
            /\ log' = << GridEntry("Grid", draw_style, x, y, r.raised, grid', brush_size') >>
            /\ UNCHANGED <<storeVars, undoVars, replayVars>>

GridResized(op) ==
    /\ log # << >> /\ grid # NoGrid
    /\ Calls < MaxGridOps
    /\ log' = Append(log, GridEntry(op, "", 0, 0, "", grid, brush_size'))
    /\ UNCHANGED <<storeVars, grid, cell_id, undoVars, replayVars>>

GridIncreaseBrushSize ==
    /\ brush_size' = IncreaseBrushSize(brush_size)
    /\ GridResized("increase_brush_size")

GridDecreaseBrushSize ==
    /\ brush_size' = DecreaseBrushSize(brush_size)
    /\ GridResized("decrease_brush_size")

\* grid[0][0].add(layer)
GridCellAdd ==
    \E layer \in {FillLayer, MarkedLayer} :
        /\ log # << >> /\ grid # NoGrid
        /\ Calls < MaxGridOps
        /\ grid' = [grid EXCEPT ![<<0, 0>>] = StoreAdd(@, layer).store]
        /\ log' = Append(log, GridEntry("add", "", 0, 0, "", grid', brush_size))
        /\ UNCHANGED <<storeVars, brush_size, cell_id, undoVars, replayVars>>

GridNext == GridConstruct \/ GridIncreaseBrushSize \/ GridDecreaseBrushSize \/ GridCellAdd

GridSpec == GridInit /\ [][GridNext]_vars

\* CellSpec: calls on the stores of the first and the last cell of a grid, and
\* Grid.special
CellEntry(op, pos, layer, g) == [op |-> op, pos |-> pos, layer |-> layer, grid |-> g]

CellInit ==
    /\ StoreIdle
    /\ \E draw_style \in DRAW_STYLE_OPTIONS :
           LET r == GridNew(draw_style, GridX, GridY)
           IN  grid = r.grid /\ cell_id = r.cell_id /\ brush_size = r.brush_size
    /\ undo_array = ArrayStack(UndoCapacity)
    /\ redo_array = ArrayStack(UndoCapacity)
    /\ action_queue = CircularQueue(ReplayCapacity)
    /\ replay_queue = CircularQueue(ReplayCapacity)
    /\ replaying = FALSE
    /\ log = << CellEntry("Grid", << >>, None, grid) >>

CellInputs == { <<0, 0>>, <<GridX - 1, GridY - 1>> }

CellCalled(op, pos, layer) ==
    /\ Calls < MaxCellOps
    /\ log' = Append(log, CellEntry(op, pos, layer, grid'))
    /\ UNCHANGED <<storeVars, brush_size, cell_id, undoVars, replayVars>>

\* grid[row][column].add(layer)
CellAdd ==
    \E p \in CellInputs, layer \in {FillLayer, MarkedLayer} :
        LET after == StoreAdd(grid[p], layer).store
        IN  /\ grid' = OnStoreOf(grid, cell_id, p, after)
            /\ CellCalled("add", p, layer)

\* grid[row][column].erase(layer)
CellErase ==
    \E p \in CellInputs :
        LET after == StoreErase(grid[p], MarkedLayer).store
        IN  /\ grid' = OnStoreOf(grid, cell_id, p, after)
            /\ CellCalled("erase", p, MarkedLayer)

\* grid[row][column].special()
CellSpecial ==
    \E p \in CellInputs :
        /\ grid' = OnStoreOf(grid, cell_id, p, CellAfterSpecial(grid[p]))
        /\ CellCalled("special", p, None)

\* grid[row][column].get_color(start, timestamp, x, y)
CellGetColor ==
    \E p \in CellInputs :
        LET after == StoreGetColor(grid[p], <<100, 150, 200>>, 0, p[1], p[2]).store
        IN  /\ grid' = OnStoreOf(grid, cell_id, p, after)
            /\ CellCalled("get_color", p, None)

\* grid.special()
CellGridSpecial ==
    /\ grid' = GridSpecialLoop(grid, cell_id, RowMajor(GridX, GridY))
    /\ CellCalled("Grid.special", << >>, None)

CellNext == CellAdd \/ CellErase \/ CellSpecial \/ CellGetColor \/ CellGridSpecial

CellSpec == CellInit /\ [][CellNext]_vars

\* CapacitySpec: the trackers on a set-style grid after a long session.  The
\* session drew FillAction over and over: the redo stack was filled by redone
\* undos first, then the undo stack by further draws, each draw also recorded
\* for replay; the stacks and the queue are full or one short of full.  The
\* calls made from there draw and record MarkedAction.
FillAction == PaintAction(<< PaintStep(<<0, 0>>, FillLayer) >>, FALSE)
MarkedAction == PaintAction(<< PaintStep(<<0, 0>>, MarkedLayer) >>, FALSE)

Preloaded(n, x) == [i \in 1..n |-> x]

\* a log entry that also tells whether the container the call pushes to was full
FullEntry(op, action, none, full, g) ==
    [op |-> op, action |-> action, is_undo |-> FALSE, none |-> none, ret |-> FALSE,
     full |-> full, grid |-> g]

CapacityInit ==
    /\ StoreIdle
    /\ brush_size = DEFAULT_BRUSH_SIZE
    /\ replaying = FALSE
    /\ replay_queue = CircularQueue(ReplayCapacity)
    /\ \E room \in {0, 1} :
           /\ undo_array = [ArrayStack(UndoCapacity) EXCEPT
                                !.items = Preloaded(UndoCapacity - room, FillAction)]
           /\ redo_array = [ArrayStack(UndoCapacity) EXCEPT
                                !.items = Preloaded(UndoCapacity - room, FillAction)]
           /\ action_queue = [CircularQueue(ReplayCapacity) EXCEPT
                                !.items = Preloaded(ReplayCapacity - room, <<FillAction, FALSE>>)]
    /\ grid = ActionRedoApply(FillAction, Grid(DRAW_STYLE_SET, GridX, GridY))
    /\ cell_id = GridIds(GridX, GridY)
    /\ log = << FullEntry("Grid", NoAction, FALSE, FALSE, grid) >>

CapacityPaint ==
    \E action \in {MarkedAction} :
        /\ Calls < MaxCapOps
        /\ grid' = ActionRedoApply(action, grid)
        /\ undo_array' = UndoAddAction(undo_array, action)
        /\ log' = Append(log, FullEntry("paint", action, FALSE, SIsFull(undo_array), grid'))
        /\ UNCHANGED <<storeVars, brush_size, cell_id, redo_array, replayVars>>

CapacityUndo ==
    LET r == UndoTrackerUndo(undo_array, redo_array, grid)
    IN  /\ Calls < MaxCapOps
        /\ grid' = r.grid
        /\ undo_array' = r.undo
        /\ redo_array' = r.redo
        /\ log' = Append(log, FullEntry("undo", r.ret, r.none, SIsFull(redo_array), grid'))
        /\ UNCHANGED <<storeVars, brush_size, cell_id, replayVars>>

CapacityRedo ==
    LET r == UndoTrackerRedo(undo_array, redo_array, grid)
    IN  /\ Calls < MaxCapOps
        /\ grid' = r.grid
        /\ undo_array' = r.undo
        /\ redo_array' = r.redo
        /\ log' = Append(log, FullEntry("redo", r.ret, r.none, FALSE, grid'))
        /\ UNCHANGED <<storeVars, brush_size, cell_id, replayVars>>

CapacityAddAction ==
    \E action \in {MarkedAction} :
        /\ Calls < MaxCapOps
        /\ action_queue' = ReplayAddAction(action_queue, action, FALSE)
        /\ log' = Append(log, FullEntry("add_action", action, FALSE, QIsFull(action_queue), grid))
        /\ UNCHANGED <<storeVars, gridVars, undoVars, replay_queue, replaying>>

CapacityNext == CapacityPaint \/ CapacityUndo \/ CapacityRedo \/ CapacityAddAction

CapacitySpec == CapacityInit /\ [][CapacityNext]_vars

----------------------------------------------------------------------------
(* What the stores are expected to do, stated without the stores' code *)

RECURSIVE Reverse(_)
Reverse(seq) == IF seq = << >> THEN << >> ELSE Append(Reverse(Tail(seq)), Head(seq))

\* L1.apply, then L2.apply on that result, ..., Ln.apply
RECURSIVE FoldApply(_, _)
FoldApply(seq, start) ==
    IF seq = << >> THEN start
    ELSE FoldApply(Tail(seq), LayerApply(Head(seq), start, 0, 0, 0))

\* the members of a set of indices in ascending order
RECURSIVE Ascending(_)
Ascending(S) ==
    IF S = {} THEN << >>
    ELSE LET m == CHOOSE a \in S : \A b \in S : a <= b
         IN  << m >> \o Ascending(S \ {m})

\* the member of S at 0-based position (n-1) div 2 of S sorted ascending by name
LowerMedianByName(S) ==
    CHOOSE m \in S :
        Cardinality({ a \in S : NameRank(LayerName(a)) < NameRank(LayerName(m)) })
            = (Cardinality(S) - 1) \div 2

----------------------------------------------------------------------------
(* C1 *)

\* call i of the log painted an action and call i + 1 undid it
PaintedThenUndone(i) ==
    /\ i >= 2 /\ i + 1 <= Len(log)
    /\ log[i].op = "paint"
    /\ log[i + 1].op = "undo"

\* after paint at i, undo at i + 1 (and redo at i + 2): the grid is back to what
\* it was before the paint (and then to what it was right after it)
RoundTrip(i) ==
    /\ GridContents(log[i + 1].grid) = GridContents(log[i - 1].grid)
    /\ (i + 2 <= Len(log) /\ log[i + 2].op = "redo") =>
           GridContents(log[i + 2].grid) = GridContents(log[i].grid)

\* the actions whose backward transform takes back what the forward one did to
\* grid g: a special action on exclusive or additive stores, or a draw action
\* each of whose steps adds to a cell that holds no layer (toggled: a layer
\* that is not active in the cell)
Restorable(action, g) ==
    IF action.is_special
    THEN \A p \in DOMAIN g : g[p].kind \in {"SET", "ADD"}
    ELSE \A k \in 1..Len(action.steps) :
             LET p == action.steps[k].affected_grid_position
                 c == Contents(g[p])
             IN  CASE g[p].kind = "SET" -> c.layer = None
                   [] g[p].kind = "ADD" -> c = << >>
                   [] g[p].kind = "SEQUENCE" -> action.steps[k].layer \notin c

----------------------------------------------------------------------------
(* C2 *)

\* the log is: the grid's construction, n add_action calls, start_replay, then
\* only play_next_action calls
RecordedThenPlayed(n) ==
    /\ Len(log) >= n + 2
    /\ \A i \in 2..(n + 1) : log[i].op = "add_action"
    /\ log[n + 2].op = "start_replay"
    /\ \A i \in (n + 3)..Len(log) : log[i].op = "play_next_action"

\* the forward or backward transform of recorded entry e
EntryApply(e, g) == IF e.is_undo THEN ActionUndoApply(e.action, g) ELSE ActionRedoApply(e.action, g)

\* C2: after n recordings and start_replay, play call j <= n returns False and
\* applies exactly the transform of entry j (backward when it was recorded as an
\* undo, forward otherwise), and call n + 1 returns True and leaves the grid alone.
C2_PlaybackOrder ==
    \A n \in 0..MaxRecorded :
        RecordedThenPlayed(n) =>
            \A j \in 1..(Len(log) - (n + 2)) :
                LET this == log[n + 2 + j]
                    before == log[n + 1 + j].grid
                IN  /\ j <= n => /\ this.ret = FALSE
                                 /\ this.grid = EntryApply(log[1 + j], before)
                    /\ j = n + 1 => /\ this.ret = TRUE
                                    /\ this.grid = before

C2_Witness ==
    /\ RecordedThenPlayed(MaxRecorded)
    /\ Len(log) = 2 * MaxRecorded + 3
    /\ log[Len(log)].ret = TRUE
    /\ log[3].is_undo /\ ~ log[2].is_undo /\ log[2].action = log[3].action
    /\ log[Len(log) - 2].grid # log[1].grid

----------------------------------------------------------------------------
(* C3 *)

\* C3: get_color leaves the logical contents of every store variant unchanged,
\* and a second get_color with the same arguments right after the first gives
\* the same outcome.
C3_GetColorPure ==
    call.op = "get_color" =>
        /\ Contents(store) = Contents(call.pre)
        /\ (prev.op = "get_color" /\ prev.start = call.start) =>
               (call.color = prev.color /\ call.raised = prev.raised)

C3_Witness ==
    /\ call.op = "get_color" /\ prev.op = "get_color" /\ prev.start = call.start
    /\ store.kind = "ADD"
    /\ Len(store.layers.items) >= 3
    /\ store.layers.items[1] # store.layers.items[2]
    /\ call.raised = ""

----------------------------------------------------------------------------
(* C4 *)

\* C4: the additive store is a FIFO: a successful add appends at the tail, a
\* failed add changes nothing, erase removes the oldest layer whatever its
\* argument (and returns False on the empty store, changing nothing), and
\* get_color is the left fold of apply over the held layers, oldest first
\* (start itself on the empty store).
C4_AdditiveFifoFold ==
    store.kind = "ADD" =>
        /\ call.op = "add" =>
               Contents(store) = IF call.ret THEN Append(Contents(call.pre), call.layer)
                                             ELSE Contents(call.pre)
        /\ call.op = "erase" =>
               IF Contents(call.pre) = << >>
               THEN call.ret = FALSE /\ Contents(store) = << >>
               ELSE call.ret = TRUE /\ Contents(store) = Tail(Contents(call.pre))
        /\ call.op = "get_color" =>
               /\ call.raised = ""
               /\ call.color = FoldApply(Contents(call.pre), call.start)

C4_Witness ==
    /\ store.kind = "ADD"
    /\ call.op = "get_color"
    /\ prev.op = "erase" /\ prev.ret
    /\ Len(Contents(store)) >= 2
    /\ Contents(store)[1] # Contents(store)[2]
    /\ call.color # FoldApply(Reverse(Contents(store)), call.start)

----------------------------------------------------------------------------
(* C5 *)

\* C5: special() on the additive store keeps the same layers in reversed order,
\* a get_color right after it folds the former newest layer first, and two
\* special() calls in a row restore the original sequence.
C5_AdditiveSpecialReverses ==
    store.kind = "ADD" =>
        /\ call.op = "special" => Contents(store) = Reverse(Contents(call.pre))
        /\ (call.op = "special" /\ prev.op = "special") =>
               Contents(store) = Contents(prev.pre)
        /\ (call.op = "get_color" /\ prev.op = "special") =>
               call.color = FoldApply(Reverse(Contents(prev.pre)), call.start)

C5_Witness ==
    /\ store.kind = "ADD"
    /\ call.op = "special" /\ prev.op = "special"
    /\ Len(Contents(store)) = Capacity
    /\ Contents(store)[1] # Contents(store)[2]

----------------------------------------------------------------------------
(* C6 *)

\* C6: the additive store never holds more than Capacity layers; add on a store
\* holding Capacity layers returns False and changes nothing; an add right after
\* an erase from a store holding Capacity layers returns True and fills the
\* store again (so the add after it returns False).
C6_AdditiveCapacity ==
    store.kind = "ADD" =>
        /\ Len(Contents(store)) <= Capacity
        /\ (call.op = "add" /\ Len(Contents(call.pre)) = Capacity) =>
               (call.ret = FALSE /\ call.raised = "" /\ Contents(store) = Contents(call.pre))
        /\ (call.op = "add" /\ prev.op = "erase" /\ Len(Contents(prev.pre)) = Capacity) =>
               (call.ret = TRUE /\ Len(Contents(store)) = Capacity)

C6_Witness ==
    /\ store.kind = "ADD"
    /\ call.op = "add" /\ call.ret
    /\ prev.op = "erase" /\ Len(Contents(prev.pre)) = Capacity
    /\ Len(Contents(store)) = Capacity

----------------------------------------------------------------------------
(* C7 *)

\* C7: get_color of the toggled store is the fold of apply over exactly the
\* active registry indices, in ascending index order, the largest registry
\* index included; with no active index it is start.
C7_SequenceFoldAllActive ==
    (store.kind = "SEQUENCE" /\ call.op = "get_color") =>
        /\ call.raised = ""
        /\ call.color = FoldApply(Ascending(Contents(call.pre)), call.start)

----------------------------------------------------------------------------
(* C8 *)

\* C8: special() of the toggled store deactivates exactly the lower median by
\* name of the active layers, over the whole registry, and changes nothing when
\* no layer is active.
C8_SequenceSpecialLowerMedian ==
    (store.kind = "SEQUENCE" /\ call.op = "special") =>
        IF Contents(call.pre) = {}
        THEN Contents(store) = {}
        ELSE Contents(store) = Contents(call.pre) \ {LowerMedianByName(Contents(call.pre))}

----------------------------------------------------------------------------
(* C9 *)

\* C9: the exclusive store holds no layer or one layer; add(l) leaves l held and
\* returns True iff l was not the held layer; erase(l) empties the slot whatever
\* l is and returns True iff a layer was held; neither touches the invert flag;
\* with no layer held and invert false get_color returns start.
C9_SetSlot ==
    store.kind = "SET" =>
        /\ store.layer \in {None} \cup LayerIndices
        /\ call.op = "add" =>
               /\ call.ret = (call.layer # call.pre.layer)
               /\ store.layer = call.layer
               /\ store.invert = call.pre.invert
        /\ call.op = "erase" =>
               /\ call.ret = (call.pre.layer # None)
               /\ store.layer = None
               /\ store.invert = call.pre.invert
        /\ (call.op = "get_color" /\ call.pre.layer = None /\ ~ call.pre.invert) =>
               call.color = call.start

C9_Witness ==
    /\ store.kind = "SET"
    /\ call.op = "erase" /\ call.ret
    /\ call.pre.layer # call.layer
    /\ prev.op = "add" /\ prev.ret /\ prev.pre.layer # None

----------------------------------------------------------------------------
(* C10 *)

\* C10: with the invert flag set, get_color of the exclusive store returns
\* 255 - c per channel, where c is layer.apply(start) when a layer is held and
\* start when none is.
C10_SetInvertEverywhere ==
    (store.kind = "SET" /\ call.op = "get_color" /\ call.pre.invert) =>
        LET c == IF call.pre.layer = None THEN call.start
                 ELSE LayerApply(call.pre.layer, call.start, 0, 0, 0)
        IN  call.color = << 255 - c[1], 255 - c[2], 255 - c[3] >>

----------------------------------------------------------------------------
(* What the trackers are expected to do, stated from the calls made *)

\* the entry of the call a step makes, and whether the step is a call of op
NewEntry == log'[Len(log')]
IsCall(op) == Len(log') = Len(log) + 1 /\ NewEntry.op = op

Top(items) == items[Len(items)]
Front(items) == SubSeq(items, 1, Len(items) - 1)

\* the actions recorded and not yet undone after the first n calls of the log,
\* oldest first
RECURSIVE NotYetUndone(_)
NotYetUndone(n) ==
    IF n = 0 THEN << >>
    ELSE LET before == NotYetUndone(n - 1)
         IN  CASE log[n].op = "paint" -> Append(before, log[n].action)
               [] log[n].op = "undo" /\ before # << >> -> Front(before)
               [] OTHER -> before

----------------------------------------------------------------------------
(* C11 *)

\* C11: undo on an empty undo stack returns None and changes neither the grid
\* nor the stacks; otherwise it removes the most recently recorded action that
\* is not yet undone, applies its backward transform to the grid once, pushes
\* it on top of the redo stack and returns it.
C11_UndoLifoFeedsRedo ==
    [][ IsCall("undo") =>
          IF NotYetUndone(Len(log)) = << >>
          THEN /\ NewEntry.none
               /\ grid' = grid /\ undo_array' = undo_array /\ redo_array' = redo_array
          ELSE LET action == Top(NotYetUndone(Len(log)))
               IN  /\ ~ NewEntry.none /\ NewEntry.action = action
                   /\ undo_array'.items = Front(undo_array.items)
                   /\ Top(undo_array.items) = action
                   /\ grid' = ActionUndoApply(action, grid)
                   /\ redo_array'.items = Append(redo_array.items, action) ]_vars

C11_Witness ==
    /\ log[Len(log)].op = "undo" /\ ~ log[Len(log)].none
    /\ Len(redo_array.items) = 2
    /\ redo_array.items[1] # redo_array.items[2]
    /\ log[Len(log)].grid # log[Len(log) - 1].grid

----------------------------------------------------------------------------
(* C12 *)

\* the log is: the grid's construction, k paints, k undos, then only redos, but
\* for one more undo after the k-th redo
PaintedUndoneRedone(k) ==
    /\ Len(log) >= 1 + 2 * k /\ Len(log) <= 2 + 3 * k
    /\ \A i \in 2..Len(log) :
           log[i].op = IF i <= 1 + k THEN "paint"
                       ELSE IF i <= 1 + 2 * k \/ i = 2 + 3 * k THEN "undo"
                       ELSE "redo"

\* C12: redo on an empty redo stack returns None and changes nothing; otherwise
\* it pops the most recently undone action, applies its forward transform once
\* and returns it, leaving the undo stack unchanged; so after k recordings, k
\* undos and k redos, the redos return the actions in recording order and one
\* more undo returns None.
C12_RedoNoRepush ==
    /\ [][ IsCall("redo") =>
             IF redo_array.items = << >>
             THEN /\ NewEntry.none
                  /\ grid' = grid /\ undo_array' = undo_array /\ redo_array' = redo_array
             ELSE /\ ~ NewEntry.none /\ NewEntry.action = Top(redo_array.items)
                  /\ redo_array'.items = Front(redo_array.items)
                  /\ undo_array' = undo_array
                  /\ grid' = ActionRedoApply(Top(redo_array.items), grid) ]_vars
    /\ [](\A k \in 1..MaxDeepOps :
            PaintedUndoneRedone(k) =>
                \A i \in (2 + 2 * k)..Len(log) :
                    IF i = 2 + 3 * k
                    THEN log[i].none
                    ELSE ~ log[i].none /\ log[i].action = log[i - 2 * k].action)

C12_Witness ==
    /\ PaintedUndoneRedone(2)
    /\ Len(log) = 8
    /\ log[2].action # log[3].action
    /\ log[8].none

----------------------------------------------------------------------------
(* C13 *)

\* C13: what one tracker instance is asked to record or undo never shows in
\* what another instance returns: an undo by an instance that has recorded
\* nothing itself returns None.
C13_TrackersIsolated ==
    \A i \in 2..Len(log) :
        ( /\ "self" \in DOMAIN log[i]
          /\ log[i].op = "undo"
          /\ \A j \in 2..(i - 1) : log[j].self = log[i].self => log[j].op # "paint" )
        => log[i].none

----------------------------------------------------------------------------
(* C14 *)

----------------------------------------------------------------------------
(* C15 *)

\* the entries recorded by the first n calls of the log, in recording order
Recorded(n) == SelectSeq(SubSeq(log, 2, n), LAMBDA e : e.op = "add_action")

\* the log is: the grid's construction, recordings mixed with at least one
\* play_next_action, start_replay at position s, then only play_next_action
PlayedTooEarly(s) ==
    /\ s \in 3..Len(log)
    /\ log[s].op = "start_replay"
    /\ \A i \in 2..(s - 1) : log[i].op \in {"add_action", "play_next_action"}
    /\ \E i \in 2..(s - 1) : log[i].op = "play_next_action"
    /\ \A i \in (s + 1)..Len(log) : log[i].op = "play_next_action"

\* C15: play_next_action before playback was started returns True, applies no
\* transform and removes nothing from the queues; what was recorded before is
\* still played, in recording order, once start_replay was called.
C15_PlayNeedsStart ==
    /\ [][ (IsCall("play_next_action") /\ ~ replaying) =>
              /\ NewEntry.ret = TRUE
              /\ grid' = grid
              /\ action_queue' = action_queue /\ replay_queue' = replay_queue
              /\ replaying' = replaying ]_vars
    /\ [](\A s \in 1..Len(log) :
            PlayedTooEarly(s) =>
                \A j \in 1..(Len(log) - s) :
                    j <= Len(Recorded(s)) =>
                        /\ log[s + j].ret = FALSE
                        /\ log[s + j].grid = EntryApply(Recorded(s)[j], log[s + j - 1].grid))

C15_Witness ==
    /\ Len(log) = 7
    /\ PlayedTooEarly(5)
    /\ log[2].op = "add_action" /\ log[3].op = "play_next_action" /\ log[4].op = "add_action"
    /\ log[2].action # log[4].action
    /\ log[7].grid # log[6].grid /\ log[6].grid # log[5].grid

----------------------------------------------------------------------------
(* C16 *)

\* the store a cell of a grid of the given style starts with
FreshStore(draw_style) ==
    CASE draw_style = "SET" -> SetLayerStore
      [] draw_style = "ADD" -> AdditiveLayerStore
      [] draw_style = "SEQUENCE" -> SequenceLayerStore

\* C16: constructing a grid with an unrecognised style raises and leaves no
\* grid; with a recognised style each of the x * y cells holds a fresh empty
\* store of the variant the style names, and the brush size is 2.
C16_GridConstruction ==
    log # << >> =>
        LET made == log[1]
        IN  IF made.draw_style \in {"SET", "ADD", "SEQUENCE"}
            THEN /\ made.raised = ""
                 /\ DOMAIN made.grid = Positions(made.x, made.y)
                 /\ Cardinality(DOMAIN made.grid) = made.x * made.y
                 /\ \A p \in DOMAIN made.grid :
                        /\ made.grid[p].kind = made.draw_style
                        /\ made.grid[p] = FreshStore(made.draw_style)
                        /\ Contents(made.grid[p]) =
                               ( CASE made.draw_style = "SET" -> [layer |-> None, invert |-> FALSE]
                                   [] made.draw_style = "ADD" -> << >>
                                   [] made.draw_style = "SEQUENCE" -> {} )
                 /\ made.brush_size = 2
            ELSE /\ made.raised = "ValueError"
                 /\ grid = NoGrid
                 /\ Len(log) = 1

C16_Witness ==
    /\ Len(log) = 1
    /\ log[1].draw_style = "SEQUENCE"
    /\ Cardinality(DOMAIN grid) = GridX * GridY
    /\ brush_size = 2

----------------------------------------------------------------------------
(* C17 *)

\* C17: the brush size stays within 0..5; increase_brush_size adds 1 unless
\* the size is 5, decrease_brush_size takes 1 off unless it is 0, and neither
\* touches the store of any cell.
C17_BrushSaturates ==
    /\ [](grid # NoGrid => brush_size \in 0..5)
    /\ [][ /\ IsCall("increase_brush_size") =>
                /\ brush_size' = (IF brush_size = 5 THEN 5 ELSE brush_size + 1)
                /\ grid' = grid
           /\ IsCall("decrease_brush_size") =>
                /\ brush_size' = (IF brush_size = 0 THEN 0 ELSE brush_size - 1)
                /\ grid' = grid ]_vars

C17_Witness ==
    /\ Len(log) = 6
    /\ log[5].op = "increase_brush_size" /\ log[5].brush_size = 5
    /\ log[6].op = "increase_brush_size" /\ log[6].brush_size = 5
    /\ grid # log[1].grid

----------------------------------------------------------------------------
(* C18 *)

\* C18: the capacity of the additive store is the same before and after
\* special() and get_color(): an add on a store holding fewer than Capacity
\* layers returns True and appends the layer at the tail.
C18_AdditiveCapacityStatic ==
    (store.kind = "ADD" /\ call.op = "add" /\ Len(Contents(call.pre)) < Capacity) =>
        /\ call.ret = TRUE
        /\ Contents(store) = Append(Contents(call.pre), call.layer)

----------------------------------------------------------------------------
(* C19 *)

\* the positions of the first n calls of the log at which play_next_action
\* returned False, in call order
RECURSIVE PlayedAt(_)
PlayedAt(n) ==
    IF n <= 1 THEN << >>
    ELSE IF log[n].op = "play_next_action" /\ log[n].ret = FALSE
         THEN Append(PlayedAt(n - 1), n)
         ELSE PlayedAt(n - 1)

\* the entries recorded and not yet played, as the queues hold them
Pending == replay_queue.items \o action_queue.items

\* a recorded log entry as the queues hold it
Queued(e) == <<e.action, e.is_undo>>

\* C19: whatever the interleaving of recording and playing, the entries played
\* are a prefix of the entries recorded, in recording order, each played once;
\* the entries not yet played are all still held, the transferred ones ahead
\* of the ones recorded since; and in playback mode each play_next_action
\* plays the oldest entry not yet played.
C19_NoIntermix ==
    /\ [](LET recorded == Recorded(Len(log))
              played == PlayedAt(Len(log))
          IN  /\ Len(played) <= Len(recorded)
              /\ \A j \in 1..Len(played) :
                     log[played[j]].grid = EntryApply(recorded[j], log[played[j] - 1].grid)
              /\ Len(Pending) = Len(recorded) - Len(played)
              /\ \A j \in 1..Len(Pending) : Pending[j] = Queued(recorded[Len(played) + j]))
    /\ [][ (IsCall("play_next_action") /\ replaying /\ Pending # << >>) =>
              /\ NewEntry.ret = FALSE
              /\ grid' = (IF Head(Pending)[2] THEN ActionUndoApply(Head(Pending)[1], grid)
                                              ELSE ActionRedoApply(Head(Pending)[1], grid))
              /\ Pending' = Tail(Pending) ]_vars

\* two entries are recorded and playback is started; the first play transfers
\* both and plays one; a third entry is recorded while the second still waits;
\* the next two plays play the second, then the third
C19_Witness ==
    /\ Len(log) = 8
    /\ log[2].op = "add_action" /\ log[3].op = "add_action"
    /\ log[4].op = "start_replay"
    /\ log[5].op = "play_next_action"
    /\ log[6].op = "add_action"
    /\ log[7].op = "play_next_action" /\ log[8].op = "play_next_action"
    /\ log[3].is_undo # log[6].is_undo
    /\ log[7].grid # log[6].grid /\ log[8].grid # log[7].grid
    /\ log[7].grid # EntryApply(log[6], log[6].grid)
    /\ Pending = << >>

----------------------------------------------------------------------------
(* C20 *)

IsPrefix(s, t) == Len(s) <= Len(t) /\ SubSeq(t, 1, Len(s)) = s

\* C20: recording an action leaves the redo stack unchanged and undo only
\* pushes onto it; so after recording A, undo, recording B, a redo returns A
\* and applies A's forward transform to the grid B was drawn on.
C20_RedoHistoryKept ==
    /\ [][ /\ IsCall("paint") => redo_array' = redo_array
           /\ IsCall("undo") =>
                /\ IsPrefix(redo_array.items, redo_array'.items)
                /\ Len(redo_array'.items) <= Len(redo_array.items) + 1 ]_vars
    /\ []( ( /\ Len(log) = 5
             /\ log[2].op = "paint" /\ log[3].op = "undo"
             /\ log[4].op = "paint" /\ log[5].op = "redo" ) =>
               /\ ~ log[5].none
               /\ log[5].action = log[2].action
               /\ log[5].grid = ActionRedoApply(log[2].action, log[4].grid) )

C20_Witness ==
    /\ Len(log) = 5
    /\ log[2].op = "paint" /\ log[3].op = "undo"
    /\ log[4].op = "paint" /\ log[5].op = "redo"
    /\ log[2].action # log[4].action
    /\ log[5].grid # log[4].grid
    /\ log[4].grid # log[1].grid

----------------------------------------------------------------------------
(* C21 *)

\* C21: on the toggled store, add of the layer with registry index i returns
\* True and makes i active iff i was inactive, erase returns True and makes i
\* inactive iff i was active; otherwise they return False and change nothing;
\* and neither changes whether any other index is active.
C21_SequenceSetSemantics ==
    store.kind = "SEQUENCE" =>
        LET i == call.layer
            before == Contents(call.pre)
            after == Contents(store)
        IN  /\ call.op = "add" =>
                 /\ call.ret = (i \notin before)
                 /\ i \in after
                 /\ \A j \in LayerIndices \ {i} : (j \in after) = (j \in before)
                 /\ (i \in before) => store = call.pre
            /\ call.op = "erase" =>
                 /\ call.ret = (i \in before)
                 /\ i \notin after
                 /\ \A j \in LayerIndices \ {i} : (j \in after) = (j \in before)
                 /\ (i \notin before) => store = call.pre

C21_Witness ==
    /\ store.kind = "SEQUENCE"
    /\ prev.op = "add" /\ prev.ret = FALSE
    /\ call.op = "erase" /\ call.ret = TRUE
    /\ call.layer = Len(registered_layers) - 1
    /\ Cardinality(Contents(store)) >= 2

----------------------------------------------------------------------------
(* C22 *)

\* C22: add, erase, special or get_color on the store of one cell leaves the
\* store of every other cell as it was; Grid.special() runs special() exactly
\* once on the store of each of the x * y cells and leaves brush_size as it was.
C22_CellsIndependent ==
    /\ [](Cardinality(DOMAIN grid) = GridX * GridY)
    /\ [][ /\ \A op \in {"add", "erase", "special", "get_color"} :
                IsCall(op) =>
                    /\ \A q \in DOMAIN grid \ {NewEntry.pos} : grid'[q] = grid[q]
                    /\ grid'[NewEntry.pos] =
                         ( CASE op = "add" -> StoreAdd(grid[NewEntry.pos], NewEntry.layer).store
                             [] op = "erase" -> StoreErase(grid[NewEntry.pos], NewEntry.layer).store
                             [] op = "special" -> StoreSpecial(grid[NewEntry.pos])
                             [] op = "get_color" ->
                                  StoreGetColor(grid[NewEntry.pos], <<100, 150, 200>>, 0,
                                                NewEntry.pos[1], NewEntry.pos[2]).store )
           /\ IsCall("Grid.special") =>
                /\ grid' = [p \in DOMAIN grid |-> StoreSpecial(grid[p])]
                /\ brush_size' = brush_size ]_vars

C22_Witness ==
    /\ Len(log) = 4
    /\ log[2].op = "add" /\ log[3].op = "add" /\ log[2].pos # log[3].pos
    /\ log[2].layer # log[3].layer
    /\ log[4].op = "Grid.special"
    /\ \A p \in DOMAIN grid : grid[p] # log[3].grid[p]
    /\ grid[<<0, 0>>] # grid[<<GridX - 1, GridY - 1>>]

----------------------------------------------------------------------------
(* C23 *)

\* the log is: the grid's construction, start_replay, a play_next_action that
\* finds nothing to play, then recordings mixed with plays, start_replay at
\* position s, then only plays
FinishedThenRestarted(s) ==
    /\ s \in 5..Len(log)
    /\ log[2].op = "start_replay"
    /\ log[3].op = "play_next_action"
    /\ \A i \in 4..(s - 1) : log[i].op \in {"add_action", "play_next_action"}
    /\ log[s].op = "start_replay"
    /\ \A i \in (s + 1)..Len(log) : log[i].op = "play_next_action"

\* C23: the play_next_action that finds both queues empty in playback mode
\* returns True and ends playback mode; entries recorded after it are not
\* applied by later play_next_action calls, which return True, until
\* start_replay is called again; then they are played in recording order.
C23_FinishedEndsPlayback ==
    /\ [][ /\ (IsCall("play_next_action") /\ replaying /\ Pending = << >>) =>
                /\ NewEntry.ret = TRUE
                /\ replaying' = FALSE
                /\ grid' = grid /\ Pending' = Pending
           /\ (IsCall("play_next_action") /\ ~ replaying) =>
                /\ NewEntry.ret = TRUE
                /\ replaying' = FALSE
                /\ grid' = grid /\ Pending' = Pending
           /\ IsCall("add_action") => replaying' = replaying
           /\ IsCall("start_replay") => replaying' = TRUE /\ Pending' = Pending ]_vars
    /\ [](\A s \in 1..Len(log) :
            FinishedThenRestarted(s) =>
                /\ \A i \in 3..(s - 1) :
                       log[i].op = "play_next_action" =>
                           log[i].ret = TRUE /\ log[i].grid = log[i - 1].grid
                /\ \A j \in 1..(Len(log) - s) :
                       IF j <= Len(Recorded(s))
                       THEN /\ log[s + j].ret = FALSE
                            /\ log[s + j].grid = EntryApply(Recorded(s)[j], log[s + j - 1].grid)
                       ELSE log[s + j].ret = TRUE)

C23_Witness ==
    /\ Len(log) = 9
    /\ FinishedThenRestarted(7)
    /\ log[4].op = "add_action" /\ log[5].op = "play_next_action" /\ log[6].op = "add_action"
    /\ log[4].is_undo # log[6].is_undo
    /\ log[8].grid # log[7].grid /\ log[9].grid # log[8].grid
    /\ replaying

====
